---- MODULE Spec2Model ----
(***************************************************************************)
(* Model of marimo's schema-directed dataclass parser                      *)
(* (src/marimo/_utils/parse_dataclass.py): to_snake, DataclassParser       *)
(* (_build_value, build_dataclass), decoding untyped values against the    *)
(* type hints of dataclasses such as those of src/marimo/_data/models.py.  *)
(*                                                                         *)
(* Python strings are sequences of one-character strings.  Python values   *)
(* are records tagged by field k, types are records tagged by field t.     *)
(***************************************************************************)
EXTENDS Integers, Sequences, FiniteSets, TLC

VARIABLES op, string, value, cls, allow_unknown_keys, result, pc, calls, clock

vars == <<op, string, value, cls, allow_unknown_keys, result, pc, calls, clock>>

(***************************************************************************)
(* Characters: str.isupper, str.lower, str.upper on one character.         *)
(***************************************************************************)
UpperChars ==
  <<"A", "B", "C", "D", "E", "F", "G", "H", "I", "J", "K", "L", "M",
    "N", "O", "P", "Q", "R", "S", "T", "U", "V", "W", "X", "Y", "Z">>

LowerChars ==
  <<"a", "b", "c", "d", "e", "f", "g", "h", "i", "j", "k", "l", "m",
    "n", "o", "p", "q", "r", "s", "t", "u", "v", "w", "x", "y", "z">>

UpperSet == {UpperChars[i] : i \in 1..Len(UpperChars)}

LowerSet == {LowerChars[i] : i \in 1..Len(LowerChars)}

LowerOf == [c \in UpperSet |-> LowerChars[CHOOSE i \in 1..Len(UpperChars) : UpperChars[i] = c]]

UpperOf == [c \in LowerSet |-> UpperChars[CHOOSE i \in 1..Len(LowerChars) : LowerChars[i] = c]]

isupper(c) == c \in UpperSet

islower(c) == c \in LowerSet

lower(c) == IF isupper(c) THEN LowerOf[c] ELSE c

upper(c) == IF islower(c) THEN UpperOf[c] ELSE c

(***************************************************************************)
(* to_snake (parse_dataclass.py:29-34):                                    *)
(*   "".join(["_" + i.lower() if i.isupper() else i for i in string])      *)
(*     .lstrip("_")                                                        *)
(***************************************************************************)
RECURSIVE join(_)
join(parts) == IF parts = <<>> THEN <<>> ELSE Head(parts) \o join(Tail(parts))

RECURSIVE lstrip(_, _)
lstrip(s, c) == IF s # <<>> /\ Head(s) = c THEN lstrip(Tail(s), c) ELSE s

\* The list comprehension of to_snake: one piece per character.
snake_pieces(s) ==
  [i \in 1..Len(s) |-> IF isupper(s[i]) THEN <<"_", lower(s[i])>> ELSE <<s[i]>>]

\* Mutant: a run of capitals gets one underscore, before its first capital.
to_snake_runs(s) ==
  lstrip(join([i \in 1..Len(s) |->
                 IF isupper(s[i])
                   THEN IF i > 1 /\ isupper(s[i - 1])
                          THEN <<lower(s[i])>>
                          ELSE <<"_", lower(s[i])>>
                   ELSE <<s[i]>>]), "_")

\* Mutant: the leading underscores are kept (no .lstrip("_")).
to_snake_nostrip(s) == join(snake_pieces(s))

\* Mutant: the capitals are lower-cased and no underscore is put in.
to_snake_lower_only(s) == [i \in 1..Len(s) |-> lower(s[i])]

to_snake(s) == lstrip(join(snake_pieces(s)), "_")

startswith(s, c) == s # <<>> /\ Head(s) = c

(***************************************************************************)
(* The strings the model uses, as character sequences.                     *)
(***************************************************************************)
s_source == <<"s", "o", "u", "r", "c", "e">>

s_dialect == <<"d", "i", "a", "l", "e", "c", "t">>

s_name == <<"n", "a", "m", "e">>

s_display_name ==
  <<"d", "i", "s", "p", "l", "a",
    "y", "_", "n", "a", "m", "e">>

s_children == <<"c", "h", "i", "l", "d", "r", "e", "n">>

s_parent == <<"p", "a", "r", "e", "n", "t">>

s_type == <<"t", "y", "p", "e">>

s_external_type ==
  <<"e", "x", "t", "e", "r", "n",
    "a", "l", "_", "t", "y", "p", "e">>

s_sample_values ==
  <<"s", "a", "m", "p", "l", "e",
    "_", "v", "a", "l", "u", "e", "s">>

s_source_type == <<"s", "o", "u", "r", "c", "e", "_", "t", "y", "p", "e">>

s_num_rows == <<"n", "u", "m", "_", "r", "o", "w", "s">>

s_num_columns == <<"n", "u", "m", "_", "c", "o", "l", "u", "m", "n", "s">>

s_variable_name ==
  <<"v", "a", "r", "i", "a", "b",
    "l", "e", "_", "n", "a", "m", "e">>

s_columns == <<"c", "o", "l", "u", "m", "n", "s">>

s_engine == <<"e", "n", "g", "i", "n", "e">>

s_total == <<"t", "o", "t", "a", "l">>

s_nulls == <<"n", "u", "l", "l", "s">>

s_unique == <<"u", "n", "i", "q", "u", "e">>

s_min == <<"m", "i", "n">>

s_max == <<"m", "a", "x">>

s_mean == <<"m", "e", "a", "n">>

s_median == <<"m", "e", "d", "i", "a", "n">>

s_std == <<"s", "t", "d">>

s_true == <<"t", "r", "u", "e">>

s_false == <<"f", "a", "l", "s", "e">>

s_p5 == <<"p", "5">>

s_p25 == <<"p", "2", "5">>

s_p75 == <<"p", "7", "5">>

s_p95 == <<"p", "9", "5">>

s_string == <<"s", "t", "r", "i", "n", "g">>

s_boolean == <<"b", "o", "o", "l", "e", "a", "n">>

s_integer == <<"i", "n", "t", "e", "g", "e", "r">>

s_number == <<"n", "u", "m", "b", "e", "r">>

s_date == <<"d", "a", "t", "e">>

s_datetime == <<"d", "a", "t", "e", "t", "i", "m", "e">>

s_time == <<"t", "i", "m", "e">>

s_unknown == <<"u", "n", "k", "n", "o", "w", "n">>

s_local == <<"l", "o", "c", "a", "l">>

s_duckdb == <<"d", "u", "c", "k", "d", "b">>

s_connection == <<"c", "o", "n", "n", "e", "c", "t", "i", "o", "n">>

s_red == <<"r", "e", "d">>

s_blue == <<"b", "l", "u", "e">>

s_displayName == <<"d", "i", "s", "p", "l", "a", "y", "N", "a", "m", "e">>

s_DisplayName == <<"D", "i", "s", "p", "l", "a", "y", "N", "a", "m", "e">>

s__displayName == <<"_", "d", "i", "s", "p", "l", "a", "y", "N", "a", "m", "e">>

s_unknownKey == <<"u", "n", "k", "n", "o", "w", "n", "K", "e", "y">>

s_iso_date == <<"2", "0", "2", "4", "-", "0", "1", "-", "0", "2">>

s_iso_datetime ==
  <<"2", "0", "2", "4", "-", "0", "1", "-", "0", "2",
    "T", "0", "3", ":", "0", "4">>

s_a == <<"a">>

s_b == <<"b">>

s_5 == <<"5">>

s_zz == <<"z", "z">>

(***************************************************************************)
(* Python values.  A float holds its value in halves (f = 3 is 1.5), so    *)
(* that float(int) is exact and 1.5 is not an int.                         *)
(***************************************************************************)
PyNone == [k |-> "NoneType"]

PyBool(b) == [k |-> "bool", b |-> b]

PyInt(i) == [k |-> "int", i |-> i]

PyFloat(f) == [k |-> "float", f |-> f]

PyStr(s) == [k |-> "str", s |-> s]

PyBytes(s) == [k |-> "bytes", s |-> s]

PyDate(y, m, d) == [k |-> "date", y |-> y, m |-> m, d |-> d]

PyDateTime(y, m, d, hh, mm) ==
  [k |-> "datetime", y |-> y, m |-> m, d |-> d, hh |-> hh, mm |-> mm]

PyList(items) == [k |-> "list", items |-> items]

PyTuple(items) == [k |-> "tuple", items |-> items]

PySet(elems) == [k |-> "set", elems |-> elems]

\* A dict keeps its insertion order: a sequence of <<key, value>> pairs.
PyDict(pairs) == [k |-> "dict", pairs |-> pairs]

Member(enum, name) == [k |-> "enum", cls |-> enum, name |-> name]

\* A dataclass instance: fields maps each field name to its value.
Instance(name, fields) == [k |-> "inst", cls |-> name, fields |-> fields]

\* The value of a number, in halves; True is 1 and False is 0.
Num(v) ==
  CASE v.k = "bool" -> IF v.b THEN 2 ELSE 0
    [] v.k = "int" -> 2 * v.i
    [] v.k = "float" -> v.f

IsNumber(v) == v.k \in {"bool", "int", "float"}

\* Python's ==: numbers compare by value whatever their kind.
PyEq(a, b) == IF IsNumber(a) /\ IsNumber(b) THEN Num(a) = Num(b) ELSE a = b

\* hash(v) raises TypeError for list, set, dict and (eq=True) dataclasses.
Hashable(v) == v.k \notin {"list", "set", "dict", "inst"}

(***************************************************************************)
(* Types: the classes and typing forms _build_value is given as cls.       *)
(***************************************************************************)
Prim(n) == [t |-> n]

t_float == Prim("float")

t_int == Prim("int")

t_str == Prim("str")

t_bool == Prim("bool")

t_bytes == Prim("bytes")

t_date == Prim("date")

t_datetime == Prim("datetime")

t_time == Prim("time")

t_timedelta == Prim("timedelta")

t_Decimal == Prim("Decimal")

t_Any == Prim("Any")

t_NoneType == Prim("NoneType")

t_Ellipsis == Prim("Ellipsis")

NewType(name, supertype) == [t |-> "NewType", name |-> name, supertype |-> supertype]

NotRequired(arg) == [t |-> "NotRequired", arg |-> arg]

ListOf(arg) == [t |-> "list", arg |-> arg]

SetOf(arg) == [t |-> "set", arg |-> arg]

TupleOf(args) == [t |-> "tuple", args |-> args]

DictOf(key_type, value_type) == [t |-> "dict", key |-> key_type, val |-> value_type]

Union(args) == [t |-> "Union", args |-> args]

Literal(vals) == [t |-> "Literal", vals |-> vals]

EnumType(name) == [t |-> "Enum", name |-> name]

Dataclass(name) == [t |-> "dataclass", name |-> name]

\* typing.Optional[X] is Union[X, None]; a Union argument is flattened and
\* a repeated NoneType dropped.  get_origin of it is Union, never Optional.
Optional(arg) ==
  IF arg.t = "Union"
    THEN IF \E i \in 1..Len(arg.args) : arg.args[i] = t_NoneType
           THEN arg
           ELSE Union(Append(arg.args, t_NoneType))
    ELSE IF arg = t_NoneType THEN arg ELSE Union(<<arg, t_NoneType>>)

\* typing.get_origin(cls), None for a plain class.
get_origin(c) ==
  IF c.t \in {"NotRequired", "list", "set", "tuple", "dict", "Union", "Literal"}
    THEN c.t
    ELSE "None"

\* isinstance(value, cls) for a plain class cls (bool is a subclass of int,
\* datetime of date).
isinstance(v, c) ==
  CASE c.t = "int" -> v.k \in {"int", "bool"}
    [] c.t = "date" -> v.k \in {"date", "datetime"}
    [] c.t \in {"float", "str", "bool", "bytes", "datetime", "time",
                "timedelta", "Decimal", "NoneType"} -> v.k = c.t
    [] OTHER -> FALSE

(***************************************************************************)
(* Results: a returned value, or the exception raised.  kind names the     *)
(* raise site after the specification's error taxonomy, exc the Python     *)
(* exception class.                                                        *)
(***************************************************************************)
Ok(v) == [ok |-> TRUE, val |-> v]

Raise(exc, kind) == [ok |-> FALSE, exc |-> exc, kind |-> kind]

NoResult == [pending |-> TRUE]

\* The first failure among results, in evaluation order.
FirstRaised(results) ==
  results[CHOOSE i \in 1..Len(results) :
            /\ ~results[i].ok
            /\ \A j \in 1..(i - 1) : results[j].ok]

AllOk(results) == \A i \in 1..Len(results) : results[i].ok

Vals(results) == [i \in 1..Len(results) |-> results[i].val]

(***************************************************************************)
(* datetime.datetime.fromisoformat, for the formats YYYY-MM-DD and         *)
(* YYYY-MM-DDTHH:MM (any other string raises ValueError).                  *)
(***************************************************************************)
DigitChars == <<"0", "1", "2", "3", "4", "5", "6", "7", "8", "9">>

isdigit(c) == \E i \in 1..Len(DigitChars) : DigitChars[i] = c

digit(c) == (CHOOSE i \in 1..Len(DigitChars) : DigitChars[i] = c) - 1

RECURSIVE number(_)
number(s) == IF s = <<>> THEN 0 ELSE 10 * number(SubSeq(s, 1, Len(s) - 1)) + digit(s[Len(s)])

AllDigits(s) == \A i \in 1..Len(s) : isdigit(s[i])

days_in_month(y, m) ==
  IF m = 2
    THEN IF y % 4 = 0 /\ (y % 100 # 0 \/ y % 400 = 0) THEN 29 ELSE 28
    ELSE IF m \in {4, 6, 9, 11} THEN 30 ELSE 31

IsIsoDate(s) ==
  /\ Len(s) = 10
  /\ s[5] = "-" /\ s[8] = "-"
  /\ AllDigits(SubSeq(s, 1, 4)) /\ AllDigits(SubSeq(s, 6, 7)) /\ AllDigits(SubSeq(s, 9, 10))
  /\ number(SubSeq(s, 1, 4)) >= 1
  /\ number(SubSeq(s, 6, 7)) \in 1..12
  /\ number(SubSeq(s, 9, 10)) \in
       1..days_in_month(number(SubSeq(s, 1, 4)), number(SubSeq(s, 6, 7)))

IsIsoTime(s) ==
  /\ Len(s) = 5
  /\ s[3] = ":"
  /\ AllDigits(SubSeq(s, 1, 2)) /\ AllDigits(SubSeq(s, 4, 5))
  /\ number(SubSeq(s, 1, 2)) \in 0..23
  /\ number(SubSeq(s, 4, 5)) \in 0..59

fromisoformat(s) ==
  IF IsIsoDate(s)
    THEN Ok(PyDateTime(number(SubSeq(s, 1, 4)), number(SubSeq(s, 6, 7)),
                       number(SubSeq(s, 9, 10)), 0, 0))
    ELSE IF Len(s) = 16 /\ IsIsoDate(SubSeq(s, 1, 10)) /\ IsIsoTime(SubSeq(s, 12, 16))
           THEN Ok(PyDateTime(number(SubSeq(s, 1, 4)), number(SubSeq(s, 6, 7)),
                              number(SubSeq(s, 9, 10)), number(SubSeq(s, 12, 13)),
                              number(SubSeq(s, 15, 16))))
           ELSE Raise("ValueError", "InvalidIsoformat")

\* datetime.date(): the calendar date of a datetime.
date_of(dt) == PyDate(dt.y, dt.m, dt.d)

(***************************************************************************)
(* Enum types.  Color is the enum of the specification's Literal example   *)
(* (Color.RED.value == "red").                                             *)
(***************************************************************************)
EnumMembers(name) ==
  CASE name = "Color" ->
         <<[name |-> "RED", value |-> PyStr(s_red)],
           [name |-> "BLUE", value |-> PyStr(s_blue)]>>

\* member.value
enum_value(member) ==
  LET ms == EnumMembers(member.cls)
  IN ms[CHOOSE i \in 1..Len(ms) : ms[i].name = member.name].value

\* Mutant: the enum class looks a value up only, and rejects its own members.
enum_call_by_value_only(name, v) ==
  LET ms == EnumMembers(name)
  IN IF \E i \in 1..Len(ms) : PyEq(ms[i].value, v)
       THEN Ok(Member(name, ms[CHOOSE i \in 1..Len(ms) :
                                  /\ PyEq(ms[i].value, v)
                                  /\ \A j \in 1..(i - 1) : ~PyEq(ms[j].value, v)].name))
       ELSE Raise("ValueError", "InvalidEnumValue")

\* cls(value) for an Enum class (parse_dataclass.py:148): a member of cls is
\* returned as it is, a value is looked up among the members' values.
enum_call(name, v) ==
  IF v.k = "enum" /\ v.cls = name
    THEN Ok(v)
    ELSE enum_call_by_value_only(name, v)

(***************************************************************************)
(* The dataclasses of src/marimo/_data/models.py.                          *)
(***************************************************************************)
Field(name, type) == [name |-> name, type |-> type, has_default |-> FALSE, default |-> PyNone]

FieldDefault(name, type, default) ==
  [name |-> name, type |-> type, has_default |-> TRUE, default |-> default]

DataType ==
  Literal(<<PyStr(s_string), PyStr(s_boolean), PyStr(s_integer), PyStr(s_number),
            PyStr(s_date), PyStr(s_datetime), PyStr(s_time), PyStr(s_unknown)>>)

ExternalDataType == t_str

DataTableSource == Literal(<<PyStr(s_local), PyStr(s_duckdb), PyStr(s_connection)>>)

\* marimo._types.ids.VariableName, a NewType of str.
VariableName == NewType("VariableName", t_str)

\* Union[NumericLiteral, TemporalLiteral, str, bool, bytes], flattened.
NonNestedLiteral ==
  Union(<<t_int, t_float, t_Decimal, t_date, t_time, t_datetime, t_timedelta,
          t_str, t_bool, t_bytes>>)

DataTableColumn ==
  <<Field(s_name, t_str), Field(s_type, DataType),
    Field(s_external_type, ExternalDataType), Field(s_sample_values, ListOf(t_Any))>>

DataTable ==
  <<Field(s_source_type, DataTableSource), Field(s_source, t_str),
    Field(s_name, t_str), Field(s_num_rows, Optional(t_int)),
    Field(s_num_columns, Optional(t_int)),
    Field(s_variable_name, Optional(VariableName)),
    Field(s_columns, ListOf(Dataclass("DataTableColumn"))),
    FieldDefault(s_engine, Optional(VariableName), PyNone)>>

ColumnSummary ==
  <<FieldDefault(s_total, Optional(t_int), PyNone),
    FieldDefault(s_nulls, Optional(t_int), PyNone),
    FieldDefault(s_unique, Optional(t_int), PyNone),
    FieldDefault(s_min, Optional(NonNestedLiteral), PyNone),
    FieldDefault(s_max, Optional(NonNestedLiteral), PyNone),
    FieldDefault(s_mean, Optional(NonNestedLiteral), PyNone),
    FieldDefault(s_median, Optional(NonNestedLiteral), PyNone),
    FieldDefault(s_std, Optional(NonNestedLiteral), PyNone),
    FieldDefault(s_true, Optional(t_int), PyNone),
    FieldDefault(s_false, Optional(t_int), PyNone),
    FieldDefault(s_p5, Optional(NonNestedLiteral), PyNone),
    FieldDefault(s_p25, Optional(NonNestedLiteral), PyNone),
    FieldDefault(s_p75, Optional(NonNestedLiteral), PyNone),
    FieldDefault(s_p95, Optional(NonNestedLiteral), PyNone)>>

DataSourceConnection ==
  <<Field(s_source, t_str), Field(s_dialect, t_str), Field(s_name, t_str),
    Field(s_display_name, t_str)>>

\* A dataclass that refers to itself: a field of type List of it and one of
\* type Optional of it.
Node ==
  <<Field(s_name, t_str), Field(s_children, ListOf(Dataclass("Node"))),
    FieldDefault(s_parent, Optional(Dataclass("Node")), PyNone)>>

DataclassNames ==
  {"DataTableColumn", "DataTable", "ColumnSummary", "DataSourceConnection", "Node"}

\* dataclasses.fields(cls), in declaration order.
fields(name) ==
  CASE name = "DataTableColumn" -> DataTableColumn
    [] name = "DataTable" -> DataTable
    [] name = "ColumnSummary" -> ColumnSummary
    [] name = "DataSourceConnection" -> DataSourceConnection
    [] name = "Node" -> Node

FieldNamesOf ==
  [name \in DataclassNames |-> {fields(name)[i].name : i \in 1..Len(fields(name))}]

FieldNames(name) == FieldNamesOf[name]

FieldsByName ==
  [name \in DataclassNames |->
     [f \in FieldNamesOf[name] |->
        fields(name)[CHOOSE i \in 1..Len(fields(name)) : fields(name)[i].name = f]]]

FieldOf(name, field) == FieldsByName[name][field]

TypeHints ==
  [name \in DataclassNames |-> [f \in FieldNamesOf[name] |-> FieldsByName[name][f].type]]

\* typing.get_type_hints(cls): field name -> type.
get_type_hints(name) == TypeHints[name]

(***************************************************************************)
(* dict operations on a sequence of <<key, value>> pairs.                  *)
(***************************************************************************)
dict_has(pairs, key) == \E i \in 1..Len(pairs) : PyEq(pairs[i][1], key)

dict_get(pairs, key) == pairs[CHOOSE i \in 1..Len(pairs) : PyEq(pairs[i][1], key)][2]

\* d[key] = val: an existing key keeps its place and takes the new value.
dict_set(pairs, key, val) ==
  IF dict_has(pairs, key)
    THEN [i \in 1..Len(pairs) |->
            IF PyEq(pairs[i][1], key) THEN <<pairs[i][1], val>> ELSE pairs[i]]
    ELSE Append(pairs, <<key, val>>)

\* The dict built by assigning the items in order: a key stays where it
\* was first assigned and holds the value assigned last.
dict_of(items) ==
  SelectSeq([i \in 1..Len(items) |->
               IF \E j \in 1..(i - 1) : PyEq(items[j][1], items[i][1])
                 THEN <<>>
                 ELSE <<items[i][1],
                        items[CHOOSE j \in i..Len(items) :
                                /\ PyEq(items[j][1], items[i][1])
                                /\ \A l \in (j + 1)..Len(items) :
                                     ~PyEq(items[l][1], items[i][1])][2]>>],
            LAMBDA item : item # <<>>)

RECURSIVE set_to_seq(_)
set_to_seq(S) ==
  IF S = {}
    THEN <<>>
    ELSE LET x == CHOOSE y \in S : TRUE IN <<x>> \o set_to_seq(S \ {x})

\* set(items): the first of equal elements is kept.
set_of(items) ==
  {items[i] : i \in {j \in 1..Len(items) : \A h \in 1..(j - 1) : ~PyEq(items[h], items[j])}}

\* What iterating a list, tuple or set yields.
iterate(v) == IF v.k = "set" THEN set_to_seq(v.elems) ELSE v.items

(***************************************************************************)
(* DataclassParser._build_value (parse_dataclass.py:41-158) and            *)
(* DataclassParser.build_dataclass (parse_dataclass.py:160-190).           *)
(* allow is self.allow_unknown_keys.                                       *)
(***************************************************************************)
Hit(r) == [hit |-> TRUE, r |-> r]

Miss == [hit |-> FALSE]

is_dataclass(v) == v.k = "inst"

\* Mutant: int also accepts a string of digits (int(value)).
basic_types_coercing(v, c) ==
  IF c.t = "float" /\ v.k \in {"int", "bool", "float"} THEN Hit(Ok(PyFloat(Num(v))))
  ELSE IF c.t = "int" /\ v.k \in {"int", "bool"} THEN Hit(Ok(PyInt(Num(v) \div 2)))
  ELSE IF c.t = "int" /\ v.k = "str" /\ v.s # <<>> /\ AllDigits(v.s)
    THEN Hit(Ok(PyInt(number(v.s))))
  ELSE IF c.t = "str" /\ v.k = "str" THEN Hit(Ok(v))
  ELSE IF c.t = "bool" /\ v.k = "bool" THEN Hit(Ok(v))
  ELSE IF c.t = "bytes" /\ v.k = "bytes" THEN Hit(Ok(v))
  ELSE Miss

\* Mutant: a bool is no int and no float.
basic_types_bool_apart(v, c) ==
  IF c.t = "float" /\ v.k \in {"int", "float"} THEN Hit(Ok(PyFloat(Num(v))))
  ELSE IF c.t = "int" /\ v.k = "int" THEN Hit(Ok(v))
  ELSE IF c.t = "str" /\ v.k = "str" THEN Hit(Ok(v))
  ELSE IF c.t = "bool" /\ v.k = "bool" THEN Hit(Ok(v))
  ELSE IF c.t = "bytes" /\ v.k = "bytes" THEN Hit(Ok(v))
  ELSE Miss

\* Lines 43-52: float(value), int(value), str(value), bool(value),
\* bytes(value) of a value that is an instance of the class asked for
\* (for float also of an int; a bool is an int).
basic_types(v, c) ==
  IF c.t = "float" /\ v.k \in {"int", "bool", "float"} THEN Hit(Ok(PyFloat(Num(v))))
  ELSE IF c.t = "int" /\ v.k \in {"int", "bool"} THEN Hit(Ok(PyInt(Num(v) \div 2)))
  ELSE IF c.t = "str" /\ v.k = "str" THEN Hit(Ok(v))
  ELSE IF c.t = "bool" /\ v.k = "bool" THEN Hit(Ok(v))
  ELSE IF c.t = "bytes" /\ v.k = "bytes" THEN Hit(Ok(v))
  ELSE Miss

\* Lines 55-58: date and datetime from an ISO string.
temporal_types(v, c) ==
  IF c.t = "date" /\ v.k = "str"
    THEN Hit(IF fromisoformat(v.s).ok
               THEN Ok(date_of(fromisoformat(v.s).val))
               ELSE fromisoformat(v.s))
  ELSE IF c.t = "datetime" /\ v.k = "str" THEN Hit(fromisoformat(v.s))
  ELSE Miss

\* Lines 60-65: Any, then a value that is already a dataclass instance,
\* whatever cls is.
passthrough(v, c) ==
  IF c.t = "Any" THEN Hit(Ok(v))
  ELSE IF is_dataclass(v) THEN Hit(Ok(v))
  ELSE Miss

\* Lines 43-65, in the order of the code.
basic(v, c) ==
  IF basic_types(v, c).hit THEN basic_types(v, c)
  ELSE IF temporal_types(v, c).hit THEN temporal_types(v, c)
  ELSE passthrough(v, c)

\* except (TypeError, ValueError): continue (lines 125-126).
caught(r) == ~r.ok /\ r.exc \in {"TypeError", "ValueError"}

\* Mutant: the last candidate that fits wins.
union_trial_last(results) ==
  IF \A i \in 1..Len(results) : caught(results[i])
    THEN Raise("ValueError", "UnionMismatch")
    ELSE results[CHOOSE i \in 1..Len(results) :
                   /\ ~caught(results[i])
                   /\ \A j \in (i + 1)..Len(results) : caught(results[j])]

\* Lines 119-131: results[i] is the outcome of decoding the value against
\* candidate i; the loop returns at the first candidate that raises neither
\* TypeError nor ValueError (another exception propagates).
union_trial(results) ==
  IF \A i \in 1..Len(results) : caught(results[i])
    THEN Raise("ValueError", "UnionMismatch")
    ELSE results[CHOOSE i \in 1..Len(results) :
                   /\ ~caught(results[i])
                   /\ \A j \in 1..(i - 1) : caught(results[j])]

literal_in(v, arg_types) == \E i \in 1..Len(arg_types) : PyEq(arg_types[i], v)

\* Mutant: no enum coercion for a single-member Literal.
build_literal_plain(v, arg_types) ==
  IF ~literal_in(v, arg_types)
    THEN Raise("ValueError", "LiteralMismatch")
    ELSE Ok(v)

\* Lines 132-146.
build_literal(v, arg_types) ==
  IF /\ Len(arg_types) = 1
     /\ arg_types[1].k = "enum"
     /\ PyEq(enum_value(arg_types[1]), v)
    THEN Ok(arg_types[1])
    ELSE build_literal_plain(v, arg_types)

\* list(...), tuple(...) of a generator: the first element that raises ends it.
collect(results, kind) ==
  IF AllOk(results)
    THEN Ok([k |-> kind, items |-> Vals(results)])
    ELSE FirstRaised(results)

\* set(...) of a generator: each element is hashed as it is added.
collect_set(results) ==
  LET added == [i \in 1..Len(results) |->
                  IF results[i].ok /\ ~Hashable(results[i].val)
                    THEN Raise("TypeError", "Unhashable")
                    ELSE results[i]]
  IN IF AllOk(added) THEN Ok(PySet(set_of(Vals(added)))) ELSE FirstRaised(added)

\* Lines 111-118: keys[i], vals[i] are the outcomes for item i, each key
\* evaluated before its value; then dict(**{...}) takes string keys only.
collect_dict(keys, vals) ==
  LET n == Len(keys)
      steps == [i \in 1..(3 * n) |->
                  IF i % 3 = 1 THEN keys[(i + 2) \div 3]
                  ELSE IF i % 3 = 2 THEN vals[(i + 1) \div 3]
                  ELSE IF keys[i \div 3].ok /\ ~Hashable(keys[i \div 3].val)
                         THEN Raise("TypeError", "Unhashable")
                         ELSE Ok(PyNone)]
      items == [i \in 1..n |-> <<keys[i].val, vals[i].val>>]
  IN IF ~AllOk(steps)
       THEN FirstRaised(steps)
       ELSE IF \E i \in 1..n : keys[i].val.k # "str"
              THEN Raise("TypeError", "KeywordsMustBeStrings")
              ELSE Ok(PyDict(dict_of(items)))

\* Mutant: no isinstance fallback.
fallback_never(v, c) == Raise("ValueError", "TypeMismatch")

\* Lines 152-158: the isinstance fallback; isinstance raises TypeError,
\* which is passed over, for a typing form.
fallback(v, c) ==
  IF isinstance(v, c) THEN Ok(v) ELSE Raise("ValueError", "TypeMismatch")

\* Mutant: a key is never private.
is_private_never(key) == FALSE

\* k.startswith("_") (line 171).
is_private(key) == startswith(key, "_")

\* Line 171 on a key that is no str: bytes.startswith("_") raises
\* TypeError, another value has no startswith.
key_error(key) ==
  IF key.k = "bytes"
    THEN Raise("TypeError", "KeyNotStr")
    ELSE Raise("AttributeError", "KeyNotStr")

\* The first key of the input that is no str, if any.
HasBadKey(pairs) == \E i \in 1..Len(pairs) : pairs[i][1].k # "str"

FirstBadKey(pairs) ==
  pairs[CHOOSE i \in 1..Len(pairs) :
          /\ pairs[i][1].k # "str"
          /\ \A j \in 1..(i - 1) : pairs[j][1].k = "str"][1]

\* Mutant: of two keys with one snake-cased name the earlier one gives the
\* value.
snake_cased_values_first(pairs) ==
  LET public == SelectSeq(pairs, LAMBDA p : ~is_private(p[1].s))
      snake == [i \in 1..Len(public) |-> PyStr(to_snake(public[i][1].s))]
  IN SelectSeq([i \in 1..Len(public) |->
                  IF \E j \in 1..(i - 1) : snake[j] = snake[i]
                    THEN <<>>
                    ELSE <<snake[i], public[i][2]>>],
               LAMBDA item : item # <<>>)

\* Lines 170-172: the public keys, snake-cased, in a dict: of two keys with
\* one snake-cased name the later one gives the value.
snake_cased_values(pairs) ==
  LET public == SelectSeq(pairs, LAMBDA p : ~is_private(p[1].s))
  IN dict_of([i \in 1..Len(public) |->
                <<PyStr(to_snake(public[i][1].s)), public[i][2]>>])

\* Mutant: nothing is unknown.
unknown_keys_none(snake, types) == {}

\* snake_cased_values.keys() - types.keys() (line 177).
unknown_keys(snake, types) ==
  {snake[i][1].s : i \in 1..Len(snake)} \ DOMAIN types

\* Mutant: a field without a default that is not given is None.
construct_lenient(name, transformed) ==
  Ok(Instance(name, [f \in FieldNames(name) |->
                       IF dict_has(transformed, PyStr(f))
                         THEN dict_get(transformed, PyStr(f))
                         ELSE FieldOf(name, f).default]))

\* cls(**transformed) (line 190): the generated __init__ of the dataclass.
construct(name, transformed) ==
  IF \E f \in FieldNames(name) :
       ~FieldOf(name, f).has_default /\ ~dict_has(transformed, PyStr(f))
    THEN Raise("TypeError", "MissingField")
    ELSE construct_lenient(name, transformed)

RECURSIVE _build_value(_, _, _)
RECURSIVE build_dataclass(_, _, _)

\* Lines 67-158: the container types, Union, Literal, Enum, dataclass and
\* the fallback, for a value and class that lines 43-65 did not settle.
build_container(v, c, allow) ==
  LET origin_cls == get_origin(c)
      each(items, type) == [i \in 1..Len(items) |-> _build_value(items[i], type, allow)]
  IN IF c.t = "NewType" THEN _build_value(v, c.supertype, allow)
     ELSE IF origin_cls = "NotRequired"
       THEN IF v = PyNone THEN Ok(PyNone) ELSE _build_value(v, c.arg, allow)
     ELSE IF origin_cls = "list" /\ v.k \in {"tuple", "list", "set"}
       THEN collect(each(iterate(v), c.arg), "list")
     ELSE IF origin_cls = "set" /\ v.k \in {"tuple", "list", "set"}
       THEN collect_set(each(iterate(v), c.arg))
     ELSE IF origin_cls = "tuple" /\ v.k \in {"tuple", "list"}
       THEN IF Len(c.args) = 2 /\ c.args[2] = t_Ellipsis
              THEN collect(each(v.items, c.args[1]), "tuple")
              ELSE collect([i \in 1..(IF Len(v.items) < Len(c.args)
                                        THEN Len(v.items) ELSE Len(c.args)) |->
                              _build_value(v.items[i], c.args[i], allow)], "tuple")
     ELSE IF origin_cls = "dict" /\ v.k = "dict"
       THEN collect_dict([i \in 1..Len(v.pairs) |-> _build_value(v.pairs[i][1], c.key, allow)],
                         [i \in 1..Len(v.pairs) |-> _build_value(v.pairs[i][2], c.val, allow)])
     ELSE IF origin_cls = "Union"
       THEN union_trial([i \in 1..Len(c.args) |-> _build_value(v, c.args[i], allow)])
     ELSE IF origin_cls = "Literal" THEN build_literal(v, c.vals)
     ELSE IF c.t = "Enum" THEN enum_call(c.name, v)
     ELSE IF c.t = "dataclass" THEN build_dataclass(v, c.name, allow)
     ELSE fallback(v, c)

_build_value(v, c, allow) ==
  IF basic(v, c).hit THEN basic(v, c).r ELSE build_container(v, c, allow)

build_dataclass(values, name, allow) ==
  IF values.k # "dict"
    THEN Raise("ValueError", "InvalidInput")
    ELSE IF HasBadKey(values.pairs)
      THEN key_error(FirstBadKey(values.pairs))
      ELSE
        LET types == get_type_hints(name)
            snake == snake_cased_values(values.pairs)
            known == SelectSeq(snake, LAMBDA item : item[1].s \in DOMAIN types)
            built == [i \in 1..Len(known) |->
                        _build_value(known[i][2], types[known[i][1].s], allow)]
        IN IF ~allow /\ unknown_keys(snake, types) # {}
             THEN Raise("ValueError", "UnknownField")
             ELSE IF ~AllOk(built)
               THEN FirstRaised(built)
               ELSE construct(name, [i \in 1..Len(known) |-> <<known[i][1], built[i].val>>])

(***************************************************************************)
(* json.loads (line 222) on a text of objects, arrays, strings without     *)
(* escapes, unsigned integers, null, true and false, as json.decoder and   *)
(* json.scanner scan them.  No text of the inputs holds an escape, or a    *)
(* sign, a fraction or an exponent outside a string.                       *)
(***************************************************************************)
WhitespaceChars == {" ", "\t", "\n", "\r"}

\* What a scan gives: the value and the index after it, or no value.
Parsed(v, n) == [ok |-> TRUE, val |-> v, next |-> n]

NoParse == [ok |-> FALSE]

\* The character at index i, "" past the end.
at(s, i) == IF i <= Len(s) THEN s[i] ELSE ""

startswith_at(s, i, word) ==
  /\ i + Len(word) - 1 <= Len(s)
  /\ SubSeq(s, i, i + Len(word) - 1) = word

\* WHITESPACE.match(s, i).end(): the first index from i on that holds no
\* whitespace.
skip_whitespace(s, i) ==
  CHOOSE j \in i..(Len(s) + 1) :
    /\ at(s, j) \notin WhitespaceChars
    /\ \A l \in i..(j - 1) : s[l] \in WhitespaceChars

\* scanstring from the index after the opening quote.
scanstring(s, i) ==
  IF \E j \in i..Len(s) : s[j] = "\""
    THEN LET j == CHOOSE j \in i..Len(s) :
                    s[j] = "\"" /\ \A l \in i..(j - 1) : s[l] # "\""
         IN Parsed(PyStr(SubSeq(s, i, j - 1)), j + 1)
    ELSE NoParse

\* NUMBER_RE at a digit: 0, or a digit from 1 to 9 and the digits after it.
match_number(s, i) ==
  IF s[i] = "0"
    THEN Parsed(PyInt(0), i + 1)
    ELSE LET j == CHOOSE j \in i..Len(s) :
                    /\ \A l \in i..j : isdigit(s[l])
                    /\ ~isdigit(at(s, j + 1))
         IN Parsed(PyInt(number(SubSeq(s, i, j))), j + 1)

RECURSIVE scan_once(_, _)
RECURSIVE array_items(_, _, _)
RECURSIVE object_items(_, _, _)

\* JSONArray from the start of an element: the elements, each followed by
\* "," or by the closing "]".
array_items(s, i, acc) ==
  LET item == scan_once(s, i)
  IN IF ~item.ok
       THEN NoParse
       ELSE LET e == skip_whitespace(s, item.next)
            IN IF at(s, e) = "]"
                 THEN Parsed(PyList(Append(acc, item.val)), e + 1)
                 ELSE IF at(s, e) = ","
                   THEN array_items(s, skip_whitespace(s, e + 1), Append(acc, item.val))
                   ELSE NoParse

\* JSONArray from the index after "[".
JSONArray(s, i) ==
  LET b == skip_whitespace(s, i)
  IN IF at(s, b) = "]" THEN Parsed(PyList(<<>>), b + 1) ELSE array_items(s, b, <<>>)

\* JSONObject from the opening quote of a key: "key" : value, each pair
\* followed by "," and the next key or by the closing "}"; the pairs make a
\* dict.
object_items(s, i, acc) ==
  LET key == scanstring(s, i + 1)
  IN IF ~key.ok
       THEN NoParse
       ELSE LET c == skip_whitespace(s, key.next)
            IN IF at(s, c) # ":"
                 THEN NoParse
                 ELSE LET item == scan_once(s, skip_whitespace(s, c + 1))
                      IN IF ~item.ok
                           THEN NoParse
                           ELSE LET e == skip_whitespace(s, item.next)
                                    pairs == Append(acc, <<key.val, item.val>>)
                                    k == skip_whitespace(s, e + 1)
                                IN IF at(s, e) = "}"
                                     THEN Parsed(PyDict(dict_of(pairs)), e + 1)
                                     ELSE IF at(s, e) = "," /\ at(s, k) = "\""
                                       THEN object_items(s, k, pairs)
                                       ELSE NoParse

\* JSONObject from the index after "{".
JSONObject(s, i) ==
  LET b == skip_whitespace(s, i)
  IN IF at(s, b) = "}" THEN Parsed(PyDict(<<>>), b + 1)
     ELSE IF at(s, b) = "\"" THEN object_items(s, b, <<>>)
     ELSE NoParse

\* The scanner's _scan_once.
scan_once(s, i) ==
  LET c == at(s, i)
  IN IF c = "\"" THEN scanstring(s, i + 1)
     ELSE IF c = "{" THEN JSONObject(s, i + 1)
     ELSE IF c = "[" THEN JSONArray(s, i + 1)
     ELSE IF startswith_at(s, i, <<"n", "u", "l", "l">>) THEN Parsed(PyNone, i + 4)
     ELSE IF startswith_at(s, i, <<"t", "r", "u", "e">>) THEN Parsed(PyBool(TRUE), i + 4)
     ELSE IF startswith_at(s, i, <<"f", "a", "l", "s", "e">>) THEN Parsed(PyBool(FALSE), i + 5)
     ELSE IF isdigit(c) THEN match_number(s, i)
     ELSE NoParse

\* json.loads(message): a str or bytes is scanned for one value with
\* nothing but whitespace around it (JSONDecodeError otherwise); another
\* message is a TypeError.
json_loads(message) ==
  IF message.k \notin {"str", "bytes"}
    THEN Raise("TypeError", "NotJSONText")
    ELSE LET r == scan_once(message.s, skip_whitespace(message.s, 1))
         IN IF r.ok /\ skip_whitespace(message.s, r.next) = Len(message.s) + 1
              THEN Ok(r.val)
              ELSE Raise("JSONDecodeError", "MalformedInput")

\* Lines 193-223.
parse_raw(message, name, allow) ==
  IF message.k = "dict"
    THEN build_dataclass(message, name, allow)
    ELSE LET parsed == json_loads(message)
         IN IF parsed.ok THEN build_dataclass(parsed.val, name, allow) ELSE parsed

(***************************************************************************)
(* The recursion, call by call: the calls of _build_value that one call    *)
(* _build_value(v, c) makes itself, each as <<value, cls>>.  After a raise *)
(* the code makes no further call, so it makes at most these.              *)
(***************************************************************************)
\* Mutant: the NewType branch calls again with a type that leads back to cls.
newtype_call_again(v, c) == <<<<v, NotRequired(c)>>>>

\* Line 77: self._build_value(value, supertype).
newtype_call(v, c) == <<<<v, c.supertype>>>>

\* Lines 184-188: one call for every entry of snake_cased_values whose key
\* is a declared field; none when line 163, 171 or 173 raises.
dataclass_calls(values, name, allow) ==
  IF values.k # "dict" \/ HasBadKey(values.pairs)
    THEN <<>>
    ELSE LET types == get_type_hints(name)
             snake == snake_cased_values(values.pairs)
             known == SelectSeq(snake, LAMBDA item : item[1].s \in DOMAIN types)
         IN IF ~allow /\ unknown_keys(snake, types) # {}
              THEN <<>>
              ELSE [i \in 1..Len(known) |-> <<known[i][2], types[known[i][1].s]>>]

calls_of(v, c, allow) ==
  LET origin_cls == get_origin(c)
      each(items, type) == [i \in 1..Len(items) |-> <<items[i], type>>]
  IN IF basic(v, c).hit THEN <<>>
     ELSE IF c.t = "NewType" THEN newtype_call(v, c)
     ELSE IF origin_cls = "NotRequired"
       THEN IF v = PyNone THEN <<>> ELSE <<<<v, c.arg>>>>
     ELSE IF origin_cls \in {"list", "set"} /\ v.k \in {"tuple", "list", "set"}
       THEN each(iterate(v), c.arg)
     ELSE IF origin_cls = "tuple" /\ v.k \in {"tuple", "list"}
       THEN IF Len(c.args) = 2 /\ c.args[2] = t_Ellipsis
              THEN each(v.items, c.args[1])
              ELSE [i \in 1..(IF Len(v.items) < Len(c.args)
                                THEN Len(v.items) ELSE Len(c.args)) |->
                      <<v.items[i], c.args[i]>>]
     ELSE IF origin_cls = "dict" /\ v.k = "dict"
       THEN [i \in 1..(2 * Len(v.pairs)) |->
               IF i % 2 = 1 THEN <<v.pairs[(i + 1) \div 2][1], c.key>>
                            ELSE <<v.pairs[i \div 2][2], c.val>>]
     ELSE IF origin_cls = "Union" THEN [i \in 1..Len(c.args) |-> <<v, c.args[i]>>]
     ELSE IF c.t = "dataclass" /\ origin_cls = "None" THEN dataclass_calls(v, c.name, allow)
     ELSE <<>>

(***************************************************************************)
(* The inputs of the calls.                                                *)
(***************************************************************************)
MaxKeyLen == 3

MaxInt == 3

MaxEdits == 1

MaxDepth == 2

KeyAlphabet == {"a", "b", "A", "B", "_", "1"}

\* The strings to_snake is called with.
Keys == UNION {[1..n -> KeyAlphabet] : n \in 0..MaxKeyLen}

\* The wire (camelCase) form of a snake_case name: every underscore is
\* deleted and the character after it upper-cased.
RECURSIVE ToCamel(_)
ToCamel(s) ==
  IF s = <<>> THEN <<>>
  ELSE IF Head(s) = "_"
    THEN IF Len(s) = 1 THEN <<>> ELSE <<upper(s[2])>> \o ToCamel(SubSeq(s, 3, Len(s)))
    ELSE <<Head(s)>> \o ToCamel(Tail(s))

\* The wire form of a value: an instance as a mapping with camelCase keys
\* in field order, an enum member as its value, a list elementwise.
RECURSIVE Encode(_)
Encode(v) ==
  CASE v.k = "inst" ->
         PyDict([i \in 1..Len(fields(v.cls)) |->
                   <<PyStr(ToCamel(fields(v.cls)[i].name)),
                     Encode(v.fields[fields(v.cls)[i].name])>>])
    [] v.k = "list" -> PyList([i \in 1..Len(v.items) |-> Encode(v.items[i])])
    [] v.k = "enum" -> enum_value(v)
    [] OTHER -> v

\* An instance of a dataclass from its field values in declaration order.
New(name, vals) ==
  Instance(name, [f \in FieldNames(name) |->
                    vals[CHOOSE i \in 1..Len(fields(name)) : fields(name)[i].name = f]])

Connections ==
  {New("DataSourceConnection", <<PyStr(s_duckdb), PyStr(s_b), PyStr(s_a), PyStr(d)>>) :
     d \in {s_b, <<>>}}

Columns ==
  {New("DataTableColumn", <<PyStr(s_a), PyStr(s_integer), PyStr(s_b), PyList(sample)>>) :
     sample \in {<<>>, <<PyInt(1), PyStr(s_a), PyNone>>}}

Tables ==
  {New("DataTable", <<PyStr(s_local), PyStr(s_a), PyStr(s_b), PyInt(MaxInt), PyNone,
                      PyStr(s_a), PyList(cols), engine>>) :
     cols \in {<<New("DataTableColumn",
                     <<PyStr(s_a), PyStr(s_integer), PyStr(s_b), PyList(<<>>)>>)>>},
     engine \in {PyNone, PyStr(s_b)}}

Summaries ==
  {New("ColumnSummary", <<PyInt(MaxInt), PyInt(0), PyNone, min, PyNone, PyNone, PyNone,
                          PyNone, PyNone, PyNone, PyNone, PyNone, PyNone, PyNone>>) :
     min \in {PyNone, PyInt(1), PyStr(s_iso_date), PyBool(TRUE)}}

Instances == Connections \cup Columns \cup Tables \cup Summaries

Ints == {PyInt(i) : i \in 0..MaxInt}

Floats == {PyFloat(f) : f \in 0..MaxInt}

Scalars ==
  {PyNone, PyBool(TRUE), PyBool(FALSE)} \cup Ints \cup Floats
  \cup {PyStr(s) : s \in {<<>>, s_a, s_5, s_red, s_integer, s_iso_date, s_iso_datetime, s_zz}}
  \cup {PyBytes(s_a), PyDate(2024, 1, 2), PyDateTime(2024, 1, 2, 3, 4),
        Member("Color", "RED"), Member("Color", "BLUE")}

Containers ==
  {PyList(<<>>), PyList(<<PyInt(1), PyStr(s_5)>>), PyList(<<PyInt(1), PyInt(2)>>),
   PyTuple(<<PyInt(1)>>), PyTuple(<<PyInt(1), PyStr(s_a)>>),
   PyTuple(<<PyInt(1), PyStr(s_a), PyInt(3)>>),
   PySet({PyInt(1), PyInt(2)}), PySet({PyStr(s_a)}),
   PyDict(<<>>), PyDict(<<<<PyStr(s_a), PyInt(1)>>>>), PyDict(<<<<PyInt(1), PyStr(s_a)>>>>),
   PyList(<<PyList(<<PyInt(1)>>)>>)}

SomeInstances ==
  {New("DataSourceConnection", <<PyStr(s_a), PyStr(s_b), PyStr(s_a), PyStr(s_b)>>),
   New("DataTableColumn", <<PyStr(s_a), PyStr(s_integer), PyStr(s_b), PyList(<<>>)>>)}

\* The values _build_value is called with.
Values ==
  Scalars \cup Containers \cup SomeInstances \cup {Encode(v) : v \in SomeInstances}
  \cup {PyDict(<<<<PyStr(s_unknownKey), PyInt(1)>>>>)}

Candidates ==
  {t_int, t_str, t_float, t_bool, t_NoneType, t_date, EnumType("Color"),
   Literal(<<Member("Color", "RED")>>), Dataclass("DataSourceConnection"),
   Dataclass("DataTableColumn")}

Unions == {Union(<<a, b>>) : a, b \in Candidates} \ {Union(<<a, a>>) : a \in Candidates}

\* The classes _build_value is called with.
Types ==
  {t_float, t_int, t_str, t_bool, t_bytes, t_date, t_datetime, t_time, t_timedelta,
   t_Decimal, t_Any, t_NoneType}
  \cup Unions
  \cup {Optional(c) : c \in Candidates \cup {t_Any, NonNestedLiteral, ListOf(t_int)}}
  \cup {NonNestedLiteral, VariableName, NotRequired(t_int), DataType, DataTableSource,
        Literal(<<Member("Color", "RED")>>),
        Literal(<<Member("Color", "RED"), Member("Color", "BLUE")>>),
        Literal(<<PyStr(s_red)>>), Literal(<<PyInt(1), PyStr(s_a)>>),
        EnumType("Color"),
        ListOf(t_int), ListOf(t_Any), ListOf(Dataclass("DataTableColumn")),
        SetOf(t_int), SetOf(ListOf(t_int)),
        TupleOf(<<t_int, t_str>>), TupleOf(<<t_int, t_Ellipsis>>),
        DictOf(t_str, t_int), DictOf(t_int, t_str)}
  \cup {Dataclass(n) : n \in DataclassNames}

\* The values build_dataclass is called with, each with its target class:
\* the wire forms of instances, empty mappings and values that are no
\* mappings, and what up to MaxEdits assignments or deletions make of them.
BaseMessages ==
  {<<Encode(v), v.cls>> : v \in Instances}
  \cup {<<PyDict(<<>>), n>> : n \in DataclassNames}
  \cup {<<v, "DataSourceConnection">> :
          v \in {PyNone, PyStr(s_a), PyList(<<>>),
                 New("DataSourceConnection",
                     <<PyStr(s_a), PyStr(s_b), PyStr(s_a), PyStr(s_b)>>),
                 PyDict(<<<<PyStr(s_displayName), PyInt(MaxInt)>>,
                          <<PyStr(s_source), PyStr(s_a)>>,
                          <<PyStr(s_dialect), PyStr(s_b)>>,
                          <<PyStr(s_name), PyStr(s_a)>>,
                          <<PyStr(s_display_name), PyStr(s_b)>>>>)}}

EditKeys ==
  {PyStr(s) : s \in {s_displayName, s_display_name, s_DisplayName, s__displayName,
                     s_unknownKey, s_name}}
  \cup {PyInt(1)}

EditValues == {PyStr(s_a), PyInt(MaxInt)}

del_item(pairs, i) == SubSeq(pairs, 1, i - 1) \o SubSeq(pairs, i + 1, Len(pairs))

Edited(m) ==
  IF m[1].k # "dict"
    THEN {}
    ELSE {<<PyDict(dict_set(m[1].pairs, key, val)), m[2]>> : key \in EditKeys, val \in EditValues}
         \cup {<<PyDict(del_item(m[1].pairs, i)), m[2]>> : i \in 1..Len(m[1].pairs)}

RECURSIVE Messages(_)
Messages(n) ==
  IF n = 0
    THEN BaseMessages
    ELSE Messages(n - 1) \cup UNION {Edited(m) : m \in Messages(n - 1)}

\* The JSON text of a wire value, as json.dumps writes it.
RECURSIVE digits_of(_)
digits_of(n) ==
  IF n < 10
    THEN <<DigitChars[n + 1]>>
    ELSE digits_of(n \div 10) \o <<DigitChars[(n % 10) + 1]>>

RECURSIVE separated(_)
separated(parts) ==
  IF parts = <<>> THEN <<>>
  ELSE IF Len(parts) = 1 THEN parts[1]
  ELSE parts[1] \o <<",", " ">> \o separated(Tail(parts))

RECURSIVE dumps(_)
dumps(v) ==
  CASE v.k = "NoneType" -> <<"n", "u", "l", "l">>
    [] v.k = "bool" -> IF v.b THEN <<"t", "r", "u", "e">> ELSE <<"f", "a", "l", "s", "e">>
    [] v.k = "int" -> digits_of(v.i)
    [] v.k = "str" -> <<"\"">> \o v.s \o <<"\"">>
    [] v.k = "list" ->
         <<"[">> \o separated([i \in 1..Len(v.items) |-> dumps(v.items[i])]) \o <<"]">>
    [] v.k = "dict" ->
         <<"{">>
         \o separated([i \in 1..Len(v.pairs) |->
                         dumps(v.pairs[i][1]) \o <<":", " ">> \o dumps(v.pairs[i][2])])
         \o <<"}">>

AConnection ==
  New("DataSourceConnection", <<PyStr(s_duckdb), PyStr(s_b), PyStr(s_a), PyStr(s_b)>>)

AColumn == New("DataTableColumn", <<PyStr(s_a), PyStr(s_integer), PyStr(s_b), PyList(<<>>)>>)

ATable ==
  New("DataTable", <<PyStr(s_local), PyStr(s_a), PyStr(s_b), PyInt(MaxInt), PyNone,
                     PyStr(s_a), PyList(<<>>), PyNone>>)

\* The wire mapping of a DataTable whose columns list holds the one value.
TableWith(column) ==
  PyDict(dict_set(Encode(ATable).pairs, PyStr(s_columns), PyList(<<column>>)))

\* JSON texts of mappings, of other values, and texts that are no JSON.
Texts ==
  {dumps(Encode(v)) : v \in Instances}
  \cup {dumps(v) : v \in {PyNone, PyBool(TRUE), PyInt(0), PyInt(MaxInt + 10), PyStr(s_a),
                          PyList(<<>>), PyList(<<PyInt(1), PyNone>>),
                          PyList(<<Encode(AConnection)>>), PyDict(<<>>),
                          TableWith(PyStr(s_a)), TableWith(Encode(AColumn)),
                          TableWith(PyList(<<>>))}}
  \cup {SubSeq(dumps(Encode(AConnection)), 1, n) :
          n \in 0..Len(dumps(Encode(AConnection)))}
  \cup {SubSeq(dumps(Encode(AConnection)), n, Len(dumps(Encode(AConnection)))) :
          n \in 2..6}
  \cup {<<" ">> \o dumps(Encode(AConnection)) \o <<" ", "\n">>,
        dumps(Encode(AConnection)) \o <<"1">>,
        <<"{", " ", "}">>, <<"[", " ", "1", " ", ",", "2", " ", "]", " ">>,
        <<"[", "1", ",", "]">>, <<"[", "1", " ", "2", "]">>, <<"0", "1">>, <<"1", "0">>,
        <<"{", ",", "}">>, <<"{", "\"", "a", "\"", " ", "1", "}">>,
        <<"{", "\"", "a", "\"", ":", "1", ",", "}">>,
        <<"{", "\"", "a", "\"", ":", "}">>, <<"{", "1", ":", "1", "}">>,
        <<"n", "u", "l">>, <<"a">>, <<"\"", "a">>, <<" ">>}

\* The messages parse_raw is called with, each with its target class:
\* mappings, JSON texts as bytes and as str, and other values.
RawMessages ==
  {<<PyBytes(dumps(Encode(v))), v.cls>> : v \in Instances}
  \cup {<<PyBytes(t), "DataSourceConnection">> : t \in Texts}
  \cup {<<PyBytes(dumps(TableWith(c))), "DataTable">> :
          c \in {PyStr(s_a), Encode(AColumn), PyList(<<>>), PyNone}}
  \cup {<<TableWith(c), "DataTable">> :
          c \in {PyStr(s_a), Encode(AColumn), AColumn, AConnection, PyList(<<>>), PyNone}}
  \cup {<<m, "DataSourceConnection">> :
          m \in {Encode(AConnection), PyDict(<<>>),
                 PyStr(dumps(Encode(AConnection))), PyStr(s_a), PyStr(<<"[", "1", "]">>),
                 PyNone, PyInt(1), PyList(<<PyInt(1)>>), AConnection}}

\* Wire mappings for the self-referential dataclass Node, nested up to n
\* levels through children and parent.
Tree(children, parent) ==
  PyDict(<<<<PyStr(s_name), PyStr(s_a)>>, <<PyStr(s_children), PyList(children)>>,
           <<PyStr(s_parent), parent>>>>)

RECURSIVE Trees(_)
Trees(n) ==
  IF n = 0
    THEN {Tree(<<>>, PyNone)}
    ELSE Trees(n - 1)
         \cup {Tree(<<t>>, PyNone) : t \in Trees(n - 1)}
         \cup {Tree(<<>>, t) : t \in Trees(n - 1)}
         \cup {Tree(<<t, t>>, t) : t \in Trees(n - 1)}

\* The values and classes of the calls that are followed call by call.
CallValues ==
  Trees(MaxDepth) \cup Containers \cup {Encode(v) : v \in Tables}
  \cup {PyNone, PyInt(1), PyStr(s_a), Tree(<<PyInt(1)>>, PyStr(s_a))}

CallTypes ==
  {Dataclass("Node"), Optional(Dataclass("Node")), ListOf(Dataclass("Node")),
   Dataclass("DataTable"), VariableName, Optional(VariableName), NotRequired(t_int),
   NonNestedLiteral, ListOf(t_int), SetOf(ListOf(t_int)), TupleOf(<<t_int, t_str>>),
   TupleOf(<<t_int, t_Ellipsis>>), DictOf(t_str, t_int), t_Any}

\* What each of these calls returns or raises.
Outcome ==
  [call \in CallValues \X CallTypes \X BOOLEAN |->
     _build_value(call[1], call[2], call[3])]

(***************************************************************************)
(* The calls.  Each behaviour is one call: of to_snake(string), of         *)
(* DataclassParser(allow_unknown_keys)._build_value(value, cls), of        *)
(* DataclassParser(allow_unknown_keys).build_dataclass(value, cls) or of   *)
(* parse_raw(value, cls, allow_unknown_keys); or one call of _build_value  *)
(* followed call by call, calls holding the calls still to be entered and  *)
(* clock turning over at every step of the interpreter.                    *)
(***************************************************************************)
InitSnake ==
  /\ pc = "call"
  /\ result = NoResult
  /\ calls = <<>>
  /\ clock = FALSE
  /\ op = "to_snake"
  /\ string \in Keys
  /\ value = PyNone
  /\ cls = t_Any
  /\ allow_unknown_keys = FALSE

InitValue ==
  /\ pc = "call"
  /\ result = NoResult
  /\ calls = <<>>
  /\ clock = FALSE
  /\ op = "_build_value"
  /\ string = <<>>
  /\ value \in Values
  /\ cls \in Types
  /\ allow_unknown_keys \in BOOLEAN

InitRecord ==
  /\ pc = "call"
  /\ result = NoResult
  /\ calls = <<>>
  /\ clock = FALSE
  /\ op = "build_dataclass"
  /\ string = <<>>
  /\ \E m \in Messages(MaxEdits) : value = m[1] /\ cls = Dataclass(m[2])
  /\ allow_unknown_keys \in BOOLEAN

InitRaw ==
  /\ pc = "call"
  /\ result = NoResult
  /\ calls = <<>>
  /\ clock = FALSE
  /\ op = "parse_raw"
  /\ string = <<>>
  /\ \E m \in RawMessages : value = m[1] /\ cls = Dataclass(m[2])
  /\ allow_unknown_keys \in BOOLEAN

InitCalls ==
  /\ pc = "call"
  /\ result = NoResult
  /\ op = "recursion"
  /\ string = <<>>
  /\ value \in CallValues
  /\ cls \in CallTypes
  /\ allow_unknown_keys \in BOOLEAN
  /\ calls = <<<<value, cls>>>>
  /\ clock = FALSE

Init == InitSnake \/ InitValue \/ InitRecord \/ InitRaw \/ InitCalls

ToSnake ==
  /\ pc = "call"
  /\ op = "to_snake"
  /\ result' = Ok(PyStr(to_snake(string)))
  /\ pc' = "done"
  /\ UNCHANGED <<op, string, value, cls, allow_unknown_keys, calls, clock>>

BuildValue ==
  /\ pc = "call"
  /\ op = "_build_value"
  /\ result' = _build_value(value, cls, allow_unknown_keys)
  /\ pc' = "done"
  /\ UNCHANGED <<op, string, value, cls, allow_unknown_keys, calls, clock>>

BuildDataclass ==
  /\ pc = "call"
  /\ op = "build_dataclass"
  /\ result' = build_dataclass(value, cls.name, allow_unknown_keys)
  /\ pc' = "done"
  /\ UNCHANGED <<op, string, value, cls, allow_unknown_keys, calls, clock>>

ParseRaw ==
  /\ pc = "call"
  /\ op = "parse_raw"
  /\ result' = parse_raw(value, cls.name, allow_unknown_keys)
  /\ pc' = "done"
  /\ UNCHANGED <<op, string, value, cls, allow_unknown_keys, calls, clock>>

\* One call of _build_value of the recursion is entered: it is replaced by
\* the calls it makes.
Descend ==
  /\ pc = "call"
  /\ op = "recursion"
  /\ calls # <<>>
  /\ calls' = calls_of(Head(calls)[1], Head(calls)[2], allow_unknown_keys) \o Tail(calls)
  /\ clock' = ~clock
  /\ UNCHANGED <<op, string, value, cls, allow_unknown_keys, result, pc>>

\* No call is left: the outermost call returns or raises.
Return ==
  /\ pc = "call"
  /\ op = "recursion"
  /\ calls = <<>>
  /\ result' = Outcome[<<value, cls, allow_unknown_keys>>]
  /\ pc' = "done"
  /\ clock' = ~clock
  /\ UNCHANGED <<op, string, value, cls, allow_unknown_keys, calls>>

Next == ToSnake \/ BuildValue \/ BuildDataclass \/ ParseRaw \/ Descend \/ Return

Spec == Init /\ [][Next]_vars

\* The calls of to_snake, of _build_value and of build_dataclass alone.
SpecSnake == InitSnake /\ [][ToSnake]_vars

SpecValue == InitValue /\ [][BuildValue]_vars

SpecRecord == InitRecord /\ [][BuildDataclass]_vars

\* The calls of parse_raw alone.
SpecRaw == InitRaw /\ [][ParseRaw]_vars

\* The recursion of one call, call by call.  The interpreter runs a call to
\* its end: a call that can be entered is entered, a call that can return
\* returns.
NextCalls == Descend \/ Return

\* While the outermost call has not ended the interpreter takes its next
\* step: every step of NextCalls is a Tick, and a Tick is possible exactly
\* when Descend or Return is.
Tick == pc = "call" /\ clock' = ~clock

SpecCalls == InitCalls /\ [][NextCalls]_vars /\ WF_clock(Tick)

(***************************************************************************)
(* Properties.                                                             *)
(***************************************************************************)
Done(o) == pc = "done" /\ op = o

\* Every capital of s as an underscore and its lower-case form, one
\* underscore per capital; the other characters as they are.
RECURSIVE ExpandCapitals(_)
ExpandCapitals(s) ==
  IF s = <<>>
    THEN <<>>
    ELSE (IF isupper(Head(s)) THEN <<"_", lower(Head(s))>> ELSE <<Head(s)>>)
         \o ExpandCapitals(Tail(s))

EndsWith(s, suffix) ==
  /\ Len(s) >= Len(suffix)
  /\ SubSeq(s, Len(s) - Len(suffix) + 1, Len(s)) = suffix

AllLower(s) == \A i \in 1..Len(s) : islower(s[i])

\* The capital at index i of the key `string` is, in the normalisation out,
\* an underscore and its lower-case form, and so is every capital after it.
CapitalReplaced(i, out) ==
  EndsWith(out, ExpandCapitals(SubSeq(string, i, Len(string))))

\* C3 as claimed: to_snake replaces every capital letter that is not the
\* first character of the key by an underscore and its lower-case form, one
\* underscore per capital, and returns an all-lower-case key unchanged.
C3_EveryCapital ==
  Done("to_snake") =>
    /\ \A i \in 2..Len(string) : isupper(string[i]) => CapitalReplaced(i, result.val.s)
    /\ AllLower(string) => result.val.s = string

\* C3, amended: to_snake replaces every capital letter that comes after some
\* character other than an underscore by an underscore and its lower-case
\* form, one underscore per capital whatever the run of capitals, and
\* returns an all-lower-case key unchanged.
C3_EveryCapitalAfterAName ==
  Done("to_snake") =>
    /\ \A i \in 2..Len(string) :
         isupper(string[i]) /\ (\E j \in 1..(i - 1) : string[j] # "_")
           => CapitalReplaced(i, result.val.s)
    /\ AllLower(string) => result.val.s = string

C3_Witness ==
  /\ Done("to_snake")
  /\ string = <<"a", "A", "B">>
  /\ result = Ok(PyStr(<<"a", "_", "a", "_", "b">>))

\* C4 as claimed: the normalisation of a key whose first character is a
\* capital letter starts with an underscore.
C4_LeadingUnderscore ==
  Done("to_snake") /\ string # <<>> /\ isupper(Head(string))
    => result.val.s # <<>> /\ Head(result.val.s) = "_"

\* C4, amended: the normalisation of a key whose first character is a
\* capital letter starts with the lower-case form of that letter, with no
\* underscore before it.
C4_LeadingLowerCase ==
  Done("to_snake") /\ string # <<>> /\ isupper(Head(string))
    => result.val.s # <<>> /\ Head(result.val.s) = lower(Head(string))

C4_Witness ==
  /\ Done("to_snake")
  /\ string = <<"B", "a", "a">>
  /\ result = Ok(PyStr(<<"b", "a", "a">>))

\* The input of a build_dataclass call is a mapping whose keys are strings.
Mapping == value.k = "dict" /\ ~HasBadKey(value.pairs)

\* The input without the items at the indices in drop.
Without(drop) ==
  PyDict(SelectSeq([i \in 1..Len(value.pairs) |->
                      IF i \in drop THEN <<>> ELSE value.pairs[i]],
                   LAMBDA p : p # <<>>))

Private(i) == startswith(value.pairs[i][1].s, "_")

\* Item i has a public key that normalizes to no declared field.
Extra(i) ==
  /\ ~Private(i)
  /\ to_snake(value.pairs[i][1].s) \notin FieldNames(cls.name)

Extras == {i \in 1..Len(value.pairs) : Extra(i)}

\* C1: with allow_unknown_keys false, build_dataclass fails with
\* UnknownField exactly when some public key of the input normalizes to no
\* declared field, and then returns no instance; with allow_unknown_keys
\* true such keys cause no failure and have no effect: the call returns
\* what it returns, under either setting, for the input without them.
C1_UnknownField ==
  Done("build_dataclass") /\ Mapping =>
    /\ ~allow_unknown_keys =>
         /\ (result = Raise("ValueError", "UnknownField")) <=> (Extras # {})
         /\ Extras # {} => ~result.ok
    /\ allow_unknown_keys =>
         /\ result # Raise("ValueError", "UnknownField")
         /\ result = build_dataclass(Without(Extras), cls.name, TRUE)
         /\ result = build_dataclass(Without(Extras), cls.name, FALSE)

C1_Witness ==
  /\ Done("build_dataclass")
  /\ Mapping
  /\ ~allow_unknown_keys
  /\ \E i \in Extras : value.pairs[i][1] = PyStr(s_unknownKey)
  /\ result = Raise("ValueError", "UnknownField")

\* The outcome of decoding the input against candidate i of the Union cls.
Candidate(i) == _build_value(value, cls.args[i], allow_unknown_keys)

\* C2: decoding against a Union returns the outcome of the first candidate,
\* in declared order, whose decode succeeds, the candidates before it having
\* failed with a type or value error; no candidate turns a string into a
\* number or a number into a string (Union[int, str] on "5" gives "5"); if
\* every candidate fails so, the decode fails with UnionMismatch.
C2_UnionFirstFit ==
  Done("_build_value") /\ cls.t = "Union" =>
    /\ \A i \in 1..Len(cls.args) :
         Candidate(i).ok /\ (\A j \in 1..(i - 1) : caught(Candidate(j)))
           => result = Candidate(i)
    /\ (\A i \in 1..Len(cls.args) : caught(Candidate(i)))
         => result = Raise("ValueError", "UnionMismatch")
    /\ result.ok /\ value.k = "str" => result.val.k \notin {"int", "float", "bool"}
    /\ result.ok /\ IsNumber(value) => result.val.k # "str"
    /\ value = PyStr(s_5) /\ cls = Union(<<t_int, t_str>>) => result = Ok(PyStr(s_5))

C2_Witness ==
  /\ Done("_build_value")
  /\ value = PyStr(s_5)
  /\ cls = Union(<<t_int, t_str>>)
  /\ result = Ok(PyStr(s_5))

Privates == {i \in 1..Len(value.pairs) : Private(i)}

\* C5: a key of the input that starts with "_" is bound to no field and
\* causes no UnknownField failure, whatever allow_unknown_keys is and
\* whatever the key normalizes to: the call returns what it returns for the
\* input without such keys, and a result's field that such a key normalizes
\* to holds no value of such a key unless a public key gave it.
C5_PrivateKeysDropped ==
  Done("build_dataclass") /\ Mapping =>
    /\ result = build_dataclass(Without(Privates), cls.name, allow_unknown_keys)
    /\ result = Raise("ValueError", "UnknownField") => Extras # {}
    /\ \A i \in Privates :
         LET f == to_snake(value.pairs[i][1].s)
         IN result.ok /\ f \in FieldNames(cls.name)
              /\ (\A j \in 1..Len(value.pairs) :
                    Private(j) \/ to_snake(value.pairs[j][1].s) # f)
              => result.val.fields[f] = FieldOf(cls.name, f).default

C5_Witness ==
  /\ Done("build_dataclass")
  /\ Mapping
  /\ \E i \in Privates :
       /\ value.pairs[i][1] = PyStr(s__displayName)
       /\ value.pairs[i][2] = PyInt(MaxInt)
  /\ cls = Dataclass("DataSourceConnection")
  /\ result.ok

\* C6: decoding against Optional[T] returns None for None; for another
\* value it returns what decoding the value against T returns whenever that
\* succeeds, and fails whenever that fails.
C6_Optional ==
  Done("_build_value") =>
    \A T \in Types :
      T # t_NoneType /\ cls = Optional(T) =>
        /\ value = PyNone => result = Ok(PyNone)
        /\ value # PyNone =>
             LET inner == _build_value(value, T, allow_unknown_keys)
             IN IF inner.ok THEN result = inner ELSE ~result.ok
        /\ value = PyInt(3) /\ T = t_int => result = Ok(PyInt(3))

C6_Witness ==
  /\ Done("_build_value")
  /\ cls = Optional(t_int)
  /\ value = PyInt(3)
  /\ result = Ok(PyInt(3))

\* C7: decoding against a Literal with exactly one allowed value, an enum
\* member whose value equals the input, returns the member; in every other
\* case it returns the input unchanged if the input is one of the allowed
\* values and fails with LiteralMismatch otherwise.
C7_Literal ==
  Done("_build_value") /\ cls.t = "Literal" =>
    IF /\ Len(cls.vals) = 1
       /\ cls.vals[1].k = "enum"
       /\ PyEq(enum_value(cls.vals[1]), value)
      THEN result = Ok(cls.vals[1])
      ELSE IF \E i \in 1..Len(cls.vals) : PyEq(cls.vals[i], value)
             THEN result = Ok(value)
             ELSE result = Raise("ValueError", "LiteralMismatch")

\* The normalized key of item i of the input, <<>> for a private key (no
\* field has the empty name).
Normalized ==
  [i \in 1..Len(value.pairs) |->
     IF Private(i) THEN <<>> ELSE to_snake(value.pairs[i][1].s)]

Required == {f \in FieldNames(cls.name) : ~FieldOf(cls.name, f).has_default}

\* C8: in a returned instance every declared field whose normalized key is
\* in the input holds the decode of its raw value (that of the last key
\* that gives it) against the field's type and every other field its
\* default; when a field without a default is absent no instance is
\* returned, and the failure is MissingField unless the unknown-key check
\* or the decode of a present field failed before the construction.
C8_AbsentFields ==
  Done("build_dataclass") /\ Mapping =>
    LET norm == Normalized
        names == FieldNames(cls.name)
        present == {f \in names : \E i \in 1..Len(norm) : norm[i] = f}
        raw == [f \in present |->
                  value.pairs[CHOOSE i \in 1..Len(norm) :
                                /\ norm[i] = f
                                /\ \A j \in (i + 1)..Len(norm) : norm[j] # f][2]]
        decoded == [f \in present |->
                      _build_value(raw[f], FieldOf(cls.name, f).type, allow_unknown_keys)]
        unknown == \E i \in 1..Len(norm) : ~Private(i) /\ norm[i] \notin names
    IN /\ result.ok =>
            /\ result.val.k = "inst" /\ result.val.cls = cls.name
            /\ \A f \in names :
                 IF f \in present
                   THEN decoded[f].ok /\ result.val.fields[f] = decoded[f].val
                   ELSE /\ FieldOf(cls.name, f).has_default
                        /\ result.val.fields[f] = FieldOf(cls.name, f).default
       /\ ~(Required \subseteq present) =>
            /\ ~result.ok
            /\ (allow_unknown_keys \/ ~unknown) /\ (\A f \in present : decoded[f].ok)
                 => result = Raise("TypeError", "MissingField")

C8_Witness ==
  /\ Done("build_dataclass")
  /\ Mapping
  /\ cls = Dataclass("DataTable")
  /\ \E i \in 1..Len(value.pairs) : Normalized[i] = s_columns
  /\ \A i \in 1..Len(value.pairs) : Normalized[i] # s_name
  /\ result = Raise("TypeError", "MissingField")

\* A canonical snake_case name: no capital, no leading underscore and every
\* underscore followed by a lower-case letter.
Canonical(n) ==
  /\ \A i \in 1..Len(n) :
       /\ ~isupper(n[i])
       /\ n[i] = "_" => i < Len(n) /\ islower(n[i + 1])
  /\ n = <<>> \/ n[1] # "_"

\* The wire forms of the canonical names among the keys.
CamelOf == [n \in {k \in Keys : Canonical(k)} |-> ToCamel(n)]

\* A type whose decode can return a value other than the encoded one: a
\* Union with a temporal candidate before str (an ISO string becomes a date)
\* or a number candidate before bool (True becomes 1), or a type built from
\* such a type.
RECURSIVE Lossy(_)
Lossy(c) ==
  CASE c.t = "Union" ->
         \/ \E i \in 1..Len(c.args) : Lossy(c.args[i])
         \/ \E i, j \in 1..Len(c.args) :
              /\ i < j
              /\ \/ c.args[i] \in {t_date, t_datetime} /\ c.args[j] = t_str
                 \/ c.args[i] \in {t_int, t_float} /\ c.args[j] = t_bool
    [] c.t \in {"list", "set", "NotRequired"} -> Lossy(c.arg)
    [] c.t = "dataclass" ->
         \E f \in FieldNames(c.name) : Lossy(FieldOf(c.name, f).type)
    [] OTHER -> FALSE

\* The wire forms of the records whose field names are canonical and whose
\* field types are not lossy.
Encoded ==
  [inst \in {r \in Instances :
               /\ ~Lossy(Dataclass(r.cls))
               /\ \A f \in FieldNames(r.cls) : Canonical(f)} |-> Encode(inst)]

\* C9: to_snake gives back every canonical snake_case name from its
\* camelCase form, and build_dataclass gives back, from its wire mapping
\* with camelCase keys, every record whose field names are canonical and
\* whose field types are not lossy.
C9_RoundTrip ==
  /\ Done("to_snake") =>
       \A n \in DOMAIN CamelOf : CamelOf[n] = string => result = Ok(PyStr(n))
  /\ Done("build_dataclass") =>
       \A inst \in DOMAIN Encoded :
         value = Encoded[inst] /\ cls = Dataclass(inst.cls) => result = Ok(inst)

C9_Witness ==
  /\ Done("build_dataclass")
  /\ cls = Dataclass("DataTable")
  /\ \E inst \in DOMAIN Encoded :
       /\ inst.cls = "DataTable"
       /\ inst.fields[s_columns].items # <<>>
       /\ inst.fields[s_engine] = PyStr(s_b)
       /\ value = Encoded[inst]
       /\ dict_has(value.pairs, PyStr(ToCamel(s_source_type)))
       /\ result = Ok(inst)

\* value is already of the class cls: a primitive of that class (a bool is
\* an int, a datetime a date), a member of the Enum or an instance of the
\* dataclass.
CorrectlyTyped ==
  \/ cls.t \in {"bool", "int", "float", "str", "bytes", "date", "datetime"}
       /\ isinstance(value, cls)
  \/ cls.t = "Enum" /\ value.k = "enum" /\ value.cls = cls.name
  \/ cls.t = "dataclass" /\ value.k = "inst" /\ value.cls = cls.name

\* C10: decoding a value that is already of the class, for a primitive
\* class, an Enum or a dataclass, succeeds and returns a value equal to it.
C10_Idempotent ==
  Done("_build_value") /\ CorrectlyTyped =>
    result.ok /\ PyEq(result.val, value)

C10_Witness ==
  /\ Done("_build_value")
  /\ cls = EnumType("Color")
  /\ value = Member("Color", "BLUE")
  /\ CorrectlyTyped
  /\ result = Ok(value)

\* cls is a Tuple with one declared type per element (no Ellipsis tail).
FixedArity == cls.t = "tuple" /\ ~(Len(cls.args) = 2 /\ cls.args[2] = t_Ellipsis)

\* C12: decoding a list or tuple against a fixed-arity Tuple fails with
\* TypeMismatch whenever its length differs from the number of declared
\* types; when the lengths are equal, element i is decoded against type i.
C12_TupleArity ==
  Done("_build_value") /\ FixedArity /\ value.k \in {"tuple", "list"} =>
    IF Len(value.items) # Len(cls.args)
      THEN result = Raise("ValueError", "TypeMismatch")
      ELSE result = collect([i \in 1..Len(cls.args) |->
                               _build_value(value.items[i], cls.args[i], allow_unknown_keys)],
                            "tuple")

\* C13: decoding a mapping against Dict[key, value] decodes every key and
\* every value and, when all of them decode, returns the mapping of the
\* decoded pairs, also when the decoded keys are no strings.
C13_MappingKeys ==
  Done("_build_value") /\ cls.t = "dict" /\ value.k = "dict" =>
    LET keys == [i \in 1..Len(value.pairs) |->
                   _build_value(value.pairs[i][1], cls.key, allow_unknown_keys)]
        vals == [i \in 1..Len(value.pairs) |->
                   _build_value(value.pairs[i][2], cls.val, allow_unknown_keys)]
    IN AllOk(keys) /\ AllOk(vals) /\ (\A i \in 1..Len(keys) : Hashable(keys[i].val))
         => result = Ok(PyDict(dict_of([i \in 1..Len(keys) |-> <<keys[i].val, vals[i].val>>])))

\* C14: a dataclass instance is returned unchanged when cls is its own
\* class; against another dataclass, a primitive class or a container type
\* the decode fails with TypeMismatch.
C14_ExactInstanceOnly ==
  Done("_build_value") /\ value.k = "inst" =>
    /\ cls = Dataclass(value.cls) => result = Ok(value)
    /\ \/ cls.t = "dataclass" /\ cls.name # value.cls
       \/ cls.t \in {"str", "int", "float", "bool", "bytes", "list", "set", "tuple", "dict"}
       => result = Raise("ValueError", "TypeMismatch")

\* C15: when a candidate of a Union fails with UnknownField or MissingField,
\* the candidates before it having failed with a mismatch of the value, the
\* decode fails with that failure: not with UnionMismatch and not with a
\* later candidate's result.
C15_UnionPropagates ==
  Done("_build_value") /\ cls.t = "Union" =>
    \A i \in 1..Len(cls.args) :
      /\ ~Candidate(i).ok
      /\ Candidate(i).kind \in {"UnknownField", "MissingField"}
      /\ \A j \in 1..(i - 1) :
           caught(Candidate(j)) /\ Candidate(j).kind \notin {"UnknownField", "MissingField"}
      => result = Candidate(i)

\* cls is a Union that lists int before bool.
IntBeforeBool ==
  /\ cls.t = "Union"
  /\ \E i, j \in 1..Len(cls.args) : i < j /\ cls.args[i] = t_int /\ cls.args[j] = t_bool

\* C17: a bool decoded against int gives the int 0 or 1 and against float
\* the float 0.0 or 1.0; an int decoded against bool fails; a Union that
\* lists int before bool never returns a bool.
C17_BoolIsInt ==
  Done("_build_value") =>
    /\ value.k = "bool" /\ cls = t_int
         => result = Ok(PyInt(IF value.b THEN 1 ELSE 0))
    /\ value.k = "bool" /\ cls = t_float
         => result = Ok(PyFloat(IF value.b THEN 2 ELSE 0))
    /\ value.k = "int" /\ cls = t_bool => ~result.ok
    /\ IntBeforeBool => ~(result.ok /\ result.val.k = "bool")

C17_Witness ==
  /\ Done("_build_value")
  /\ value = PyBool(TRUE)
  /\ cls = NonNestedLiteral
  /\ IntBeforeBool
  /\ result = Ok(PyInt(1))

\* The input with, for every normalized name that several public keys give,
\* the first of these keys alone, holding the value of the last of them.
LaterWins ==
  LET norm == Normalized
      n == Len(norm)
      last(i) == CHOOSE j \in i..n : norm[j] = norm[i] /\ \A l \in (j + 1)..n : norm[l] # norm[i]
  IN PyDict(SelectSeq([i \in 1..n |->
                         IF Private(i) THEN value.pairs[i]
                         ELSE IF \E j \in 1..(i - 1) : norm[j] = norm[i] THEN <<>>
                         ELSE <<value.pairs[i][1], value.pairs[last(i)][2]>>],
                      LAMBDA p : p # <<>>))

\* Items i < j have distinct public keys that normalize to one declared field.
SameField(i, j) ==
  /\ i < j
  /\ ~Private(i) /\ ~Private(j)
  /\ Normalized[i] = Normalized[j]
  /\ Normalized[i] \in FieldNames(cls.name)

\* C18: when several public keys normalize to one declared field, the call
\* does what it does for the input in which the first of them holds the
\* value of the last and the others are gone: the duplication raises
\* nothing, the field is bound to the decode of the later value, and the
\* earlier value is neither decoded nor validated.
C18_LaterKeyWins ==
  Done("build_dataclass") /\ Mapping =>
    /\ result = build_dataclass(LaterWins, cls.name, allow_unknown_keys)
    /\ \A i, j \in 1..Len(value.pairs) :
         /\ SameField(i, j)
         /\ \A l \in (j + 1)..Len(value.pairs) : Normalized[l] # Normalized[j]
         /\ result.ok
         => LET decoded == _build_value(value.pairs[j][2],
                                        FieldOf(cls.name, Normalized[j]).type,
                                        allow_unknown_keys)
            IN decoded.ok /\ result.val.fields[Normalized[j]] = decoded.val

C18_Witness ==
  /\ Done("build_dataclass")
  /\ Mapping
  /\ cls = Dataclass("DataSourceConnection")
  /\ \E i, j \in 1..Len(value.pairs) :
       /\ SameField(i, j)
       /\ value.pairs[i][1] = PyStr(s_displayName)
       /\ value.pairs[j][1] = PyStr(s_display_name)
       /\ ~_build_value(value.pairs[i][2], t_str, allow_unknown_keys).ok
       /\ result.ok
       /\ result.val.fields[s_display_name] = value.pairs[j][2]

\* C16: every call ends: it returns an instance or raises, also for the
\* self-referential dataclass Node.
C16_Terminates == <>(pc = "done")

C16_Witness ==
  /\ op = "recursion"
  /\ pc = "done"
  /\ cls = Dataclass("Node")
  /\ \E t \in Trees(MaxDepth - 1) :
       /\ t # Tree(<<>>, PyNone)
       /\ value = Tree(<<t, t>>, t)
  /\ calls = <<>>
  /\ result.ok
  /\ result.val.fields[s_children].items # <<>>
  /\ result.val.fields[s_parent].k = "inst"

\* C11: a value to be decoded as a record that is no mapping fails with
\* InvalidInput: the value build_dataclass is given, the message parse_raw
\* is given or what its bytes parse to as JSON, and the value of a field
\* whose type is a dataclass (an instance of that very class apart).
C11_NotAMapping ==
  /\ Done("build_dataclass") /\ value.k # "dict"
       => result = Raise("ValueError", "InvalidInput")
  /\ Done("parse_raw") /\ value.k \notin {"dict", "bytes"}
       => result = Raise("ValueError", "InvalidInput")
  /\ Done("parse_raw") /\ value.k = "bytes" /\ json_loads(value).ok
       /\ json_loads(value).val.k # "dict"
       => result = Raise("ValueError", "InvalidInput")
  /\ Done("_build_value") /\ cls.t = "dataclass" /\ value.k # "dict"
       /\ ~(value.k = "inst" /\ value.cls = cls.name)
       => result = Raise("ValueError", "InvalidInput")

====
